---- MODULE Spec2Model ----
(***************************************************************************)
(* CGAL::remove_outliers (Point_set_processing_3/include/CGAL/             *)
(* remove_outliers.h) as a state machine.                                  *)
(*                                                                         *)
(* One run of remove_outliers is modelled: the scoring loop (one action    *)
(* per iteration, callback poll included), the set-up of the rewrite loop, *)
(* one action per iteration of the rewrite loop, and the return.           *)
(*                                                                         *)
(* Iterators into `points` are offsets from points.begin(): 0 is begin(),  *)
(* Len(points) is end().  An element of the range (Enriched_point) is a    *)
(* record [pt, tag]: its 3D point and the attributes that tell it from     *)
(* the other elements (here its position in the input).                    *)
(*                                                                         *)
(* FT is modelled as the exact field of rationals, [num, den] with         *)
(* den > 0.  `double` is modelled as IEEE-754 binary64 with round to       *)
(* nearest even: a value is [sig, exp], sig the 53 significand bits (most  *)
(* significant first) and exp the exponent of the first bit.               *)
(***************************************************************************)
EXTENDS Integers, Sequences, FiniteSets, Bags, TLC

\* ------------------------------------------------------------------ bounds
MaxN == 3
MaxCoord == 1

\* parameter samples
Percents == {0, 10, 42, 50, 100}
Distances == {0, 1, 2}
\* <<k, neighbor_radius>>
Queries == {<<2, 0>>, <<3, 0>>, <<2, 1>>}
\* sizes of the large inputs (k nearest neighbours only)
StressSizes == {50}

FarPoint == <<0, MaxCoord + 1, MaxCoord + 1>>
PointDomain == {<<x, 0, 0>> : x \in 0..MaxCoord} \cup {FarPoint}

Enrich(coords) == [i \in 1..Len(coords) |-> [pt |-> coords[i], tag |-> i]]

SmallInputs == UNION {{Enrich(c) : c \in [1..n -> PointDomain]} : n \in 1..MaxN}
StressInputs ==
  {Enrich([i \in 1..n |-> IF i = 1 THEN FarPoint ELSE <<i % (MaxCoord + 1), 0, 0>>])
     : n \in StressSizes}

Sizes == (1..MaxN) \cup StressSizes

VARIABLES
  points,                 \* PointRange& points
  k,                      \* unsigned int k
  neighbor_radius,        \* named parameter neighbor_radius
  threshold_percent,      \* named parameter threshold_percent
  threshold_distance,     \* named parameter threshold_distance
  callback,               \* TRUE iff the std::function is non-empty
  nb_points,              \* points.size() at line 183
  sorted_points,          \* std::multimap<FT, Enriched_point>, in iteration order
  nb,                     \* scoring loop counter
  first_point_to_remove,  \* iterator (offset)
  dst,                    \* iterator (offset)
  first_index_to_remove,  \* int
  index,                  \* int; src is sorted_points.begin() + index
  pc,                     \* "Scoring", "Rewriting", "Done", "Cancelled"
  result,                 \* the returned iterator (offset), -1 before the return
  input,                  \* the range as it was passed in
  calls                   \* the polls of the callback so far: [arg, ret]

vars == <<points, k, neighbor_radius, threshold_percent, threshold_distance,
          callback, nb_points, sorted_points, nb, first_point_to_remove, dst,
          first_index_to_remove, index, pc, result, input, calls>>

params == <<k, neighbor_radius, threshold_percent, threshold_distance, callback,
            nb_points, input>>

\* ------------------------------------------------------------ double (binary64)
DoublePrecision == 53

RECURSIVE IntBits(_)
IntBits(v) == IF v = 0 THEN <<>> ELSE Append(IntBits(v \div 2), v % 2)

RECURSIVE BitsToInt(_)
BitsToInt(s) ==
  IF s = <<>> THEN 0
  ELSE 2 * BitsToInt(SubSeq(s, 1, Len(s) - 1)) + s[Len(s)]

RECURSIVE Pow2Mod(_, _)
Pow2Mod(i, b) ==
  IF i = 0 THEN 1 % b
  ELSE IF i % 2 = 0 THEN LET h == Pow2Mod(i \div 2, b) IN (h * h) % b
  ELSE (2 * Pow2Mod(i - 1, b)) % b

DoubleZero == [sig |-> [i \in 1..DoublePrecision |-> 0], exp |-> 0]
DoubleOne == [sig |-> [i \in 1..DoublePrecision |-> IF i = 1 THEN 1 ELSE 0], exp |-> 0]

\* bits: the leading bits of an exact value, at least DoublePrecision of them,
\* the first one 1; sticky: some bit after bits[DoublePrecision + 1] is set
RoundToNearestEven(bits, sticky, exp) ==
  LET P    == DoublePrecision
      sig  == [i \in 1..P |-> bits[i]]
      grd  == IF Len(bits) > P THEN bits[P + 1] ELSE 0
      up   == grd = 1 /\ (sticky \/ sig[P] = 1)
      zs   == {i \in 1..P : sig[i] = 0}
      j    == CHOOSE i \in zs : \A h \in zs : h <= i
  IN  IF ~up THEN [sig |-> sig, exp |-> exp]
      ELSE IF zs = {} THEN [sig |-> DoubleOne.sig, exp |-> exp + 1]
      ELSE [sig |-> [i \in 1..P |-> IF i < j THEN sig[i] ELSE IF i = j THEN 1 ELSE 0],
            exp |-> exp]

\* the remainder of a * 2^i modulo b, and the i-th binary fraction digit of a / b
FracRem(a, b, i) == ((a % b) * Pow2Mod(i, b)) % b
FracBit(a, b, i) == (2 * FracRem(a, b, i - 1)) \div b

\* double(a) / double(b) for small naturals a and b > 0
DoubleDiv(a, b) ==
  IF a = 0 THEN DoubleZero
  ELSE LET ip   == IntBits(a \div b)
           w    == Len(ip)
           lead == IF w > 0 THEN 0
                   ELSE (CHOOSE i \in 1..31 : FracBit(a, b, i) = 1
                            /\ \A h \in 1..(i - 1) : FracBit(a, b, h) = 0) - 1
           bits == [j \in 1..(DoublePrecision + 1) |->
                      IF j <= w THEN ip[j] ELSE FracBit(a, b, lead + j - w)]
           last == lead + DoublePrecision + 1 - w
       IN  RoundToNearestEven(bits, FracRem(a, b, last) # 0,
                              IF w > 0 THEN w - 1 ELSE 0 - (lead + 1))

\* double(n) * x for a small natural n; the exact product is formed in four
\* limbs of 13 bits below the leading bit, then rounded
DoubleMul(n, x) ==
  IF n = 0 \/ x = DoubleZero THEN DoubleZero
  ELSE LET W  == 13
           B  == 2^W
           limb(h) == BitsToInt(SubSeq(x.sig, 2 + W * (h - 1), 1 + W * h))
           limbBits(v) == [i \in 1..W |-> (v \div 2^(W - i)) % 2]
           t4 == n * limb(4)
           t3 == n * limb(3) + t4 \div B
           t2 == n * limb(2) + t3 \div B
           t1 == n * limb(1) + t2 \div B
           t0 == n * x.sig[1] + t1 \div B
           prod == IntBits(t0) \o limbBits(t1 % B) \o limbBits(t2 % B)
                     \o limbBits(t3 % B) \o limbBits(t4 % B)
           L    == Len(prod)
           st   == \E i \in (DoublePrecision + 2)..L : prod[i] = 1
       IN  RoundToNearestEven(prod, st, x.exp + (L - DoublePrecision))

\* int(x): truncation towards zero, x >= 0
DoubleToInt(x) ==
  IF x = DoubleZero \/ x.exp < 0 THEN 0
  ELSE BitsToInt(SubSeq(x.sig, 1, x.exp + 1))

\* x < y for x, y >= 0
DoubleLess(x, y) ==
  IF y = DoubleZero THEN FALSE
  ELSE IF x = DoubleZero THEN TRUE
  ELSE IF x.exp # y.exp THEN x.exp < y.exp
  ELSE \E i \in 1..DoublePrecision :
         /\ x.sig[i] < y.sig[i]
         /\ \A h \in 1..(i - 1) : x.sig[h] = y.sig[h]

\* ------------------------------------------------------------------ FT
FTLess(a, b) == a.num * b.den < b.num * a.den
FTEqual(a, b) == a.num * b.den = b.num * a.den

\* Kernel::Compute_squared_distance_3
sqd(p, q) ==
  (p[1] - q[1]) * (p[1] - q[1]) + (p[2] - q[2]) * (p[2] - q[2])
    + (p[3] - q[3]) * (p[3] - q[3])

\* ------------------------------------------------------- Neighbor_query
RECURSIVE KNearest(_, _, _, _)
KNearest(pts, query, rest, n) ==
  IF n = 0 \/ rest = {} THEN {}
  ELSE LET i == CHOOSE i \in rest :
                  \A j \in rest : sqd(pts[i].pt, query) <= sqd(pts[j].pt, query)
       IN  {i} \cup KNearest(pts, query, rest \ {i}, n - 1)

\* neighbor_query.get_points(query, k, neighbor_radius, out): the results the
\* index may give, each the set of the positions of the points it outputs
get_points(pts, query, kk, radius) ==
  IF radius = 0 THEN {KNearest(pts, query, DOMAIN pts, kk)}
  ELSE LET ball == {i \in DOMAIN pts : sqd(pts[i].pt, query) <= radius * radius}
       IN  IF kk = 0 \/ Cardinality(ball) <= kk THEN {ball}
           ELSE {S \in SUBSET ball : Cardinality(S) = kk}

\* ------------------------------------------------------------ estimator
RECURSIVE SumSqd(_, _, _)
SumSqd(pts, query, S) ==
  IF S = {} THEN 0
  ELSE LET i == CHOOSE i \in S : TRUE
       IN  sqd(pts[i].pt, query) + SumSqd(pts, query, S \ {i})

\* internal::compute_avg_knn_sq_distance_3, on the neighbours the query gave
compute_avg_knn_sq_distance_3(pts, query, neighbors) ==
  [num |-> SumSqd(pts, query, neighbors), den |-> Cardinality(neighbors)]

\* ------------------------------------------------------------- the engine
\* std::map in place of std::multimap: an entry whose key is present is dropped
MapInsert(sorted, entry) ==
  IF \E i \in 1..Len(sorted) : FTEqual(entry[1], sorted[i][1]) THEN sorted
  ELSE LET pos == Cardinality({i \in 1..Len(sorted) : FTLess(sorted[i][1], entry[1])})
       IN  SubSeq(sorted, 1, pos) \o <<entry>> \o SubSeq(sorted, pos + 1, Len(sorted))

\* insertion before the entries of equal key
MultimapInsertFront(sorted, entry) ==
  LET pos == Cardinality({i \in 1..Len(sorted) : FTLess(sorted[i][1], entry[1])})
  IN  SubSeq(sorted, 1, pos) \o <<entry>> \o SubSeq(sorted, pos + 1, Len(sorted))

\* sorted_points.insert(std::make_pair(sq_distance, vt)): after the last entry
\* whose key is not greater
MultimapInsert(sorted, entry) ==
  LET pos == Cardinality({i \in 1..Len(sorted) : ~FTLess(entry[1], sorted[i][1])})
  IN  SubSeq(sorted, 1, pos) \o <<entry>> \o SubSeq(sorted, pos + 1, Len(sorted))

\* nb / double(nb_points): the count before the point just scored
AdvancementBeforeIncrement(n, total) == DoubleDiv(n, total)

\* (nb+1) / double(nb_points)
Advancement(n, total) == DoubleDiv(n + 1, total)

AdvancementTable ==
  [total \in Sizes |-> [n \in 0..(total - 1) |-> Advancement(n, total)]]

\* return points.begin() on cancellation
CancelResultBegin(pts) == 0

\* return points.end() on cancellation
CancelResult(pts) == Len(pts)

\* the quotient taken over the integers: size * ((100 - percent) / 100)
FirstIndexIntegerDivision(size, percent) == size * ((100 - percent) \div 100)

\* the share to remove in place of the share to keep
FirstIndexOfPercent(size, percent) ==
  DoubleToInt(DoubleMul(size, DoubleDiv(percent, 100)))

\* int(double(sorted_points.size()) * ((100.0-threshold_percent)/100.0))
FirstIndexToRemove(size, percent) ==
  DoubleToInt(DoubleMul(size, DoubleDiv(100 - percent, 100)))

FirstIndexTable ==
  [size \in Sizes |-> [percent \in Percents |-> FirstIndexToRemove(size, percent)]]

\* && in place of ||
KeepsPointBoth(idx, first_index, key, distance) ==
  idx <= first_index /\ key.num < (distance * distance) * key.den

\* index <= first_index_to_remove || src->first < threshold_distance * threshold_distance
KeepsPoint(idx, first_index, key, distance) ==
  idx <= first_index \/ key.num < (distance * distance) * key.den

\* *dst++ = src->second
WriteDst(pts, d, value) == [pts EXCEPT ![d + 1] = value]

TypeOK ==
  /\ pc \in {"Scoring", "Rewriting", "Done", "Cancelled"}
  /\ nb \in 0..nb_points
  /\ Len(points) = nb_points
  /\ dst \in 0..nb_points
  /\ index \in 0..nb_points
  /\ callback \in BOOLEAN

Init ==
  /\ \/ /\ input \in SmallInputs
        /\ \E q \in Queries : k = q[1] /\ neighbor_radius = q[2]
     \/ /\ input \in StressInputs
        /\ k = 2 /\ neighbor_radius = 0
  /\ threshold_percent \in Percents
  /\ threshold_distance \in Distances
  /\ callback \in BOOLEAN
  /\ points = input
  /\ nb_points = Len(input)
  /\ sorted_points = <<>>
  /\ nb = 0
  /\ first_point_to_remove = 0
  /\ dst = 0
  /\ first_index_to_remove = 0
  /\ index = 0
  /\ pc = "Scoring"
  /\ result = -1
  /\ calls = <<>>

\* one iteration of the scoring loop
ScorePoint ==
  /\ pc = "Scoring"
  /\ nb < nb_points
  /\ LET vt == points[nb + 1] IN
     \E neighbors \in get_points(points, vt.pt, k, neighbor_radius) :
       LET sq_distance == compute_avg_knn_sq_distance_3(points, vt.pt, neighbors)
       IN  sorted_points' = MultimapInsert(sorted_points, <<sq_distance, vt>>)
  /\ IF callback
     THEN \E ret \in BOOLEAN :
            /\ calls' = Append(calls, [arg |-> AdvancementTable[nb_points][nb],
                                       ret |-> ret])
            /\ IF ret
               THEN nb' = nb + 1 /\ UNCHANGED <<pc, result>>
               ELSE pc' = "Cancelled" /\ result' = CancelResult(points)
                    /\ UNCHANGED nb
     ELSE nb' = nb + 1 /\ UNCHANGED <<calls, pc, result>>
  /\ UNCHANGED <<points, first_point_to_remove, dst, first_index_to_remove, index>>
  /\ UNCHANGED params

\* the declarations before the rewrite loop and its initialisation
BeginRewrite ==
  /\ pc = "Scoring"
  /\ nb = nb_points
  /\ first_point_to_remove' = 0
  /\ dst' = 0
  /\ first_index_to_remove' = FirstIndexTable[Len(sorted_points)][threshold_percent]
  /\ index' = 0
  /\ pc' = "Rewriting"
  /\ UNCHANGED <<points, sorted_points, nb, result, calls>>
  /\ UNCHANGED params

\* one iteration of the rewrite loop
RewriteStep ==
  /\ pc = "Rewriting"
  /\ index < Len(sorted_points)
  /\ LET src == sorted_points[index + 1] IN
       /\ points' = WriteDst(points, dst, src[2])
       /\ dst' = dst + 1
       /\ first_point_to_remove' =
            IF KeepsPoint(index, first_index_to_remove, src[1], threshold_distance)
            THEN dst + 1
            ELSE first_point_to_remove
  /\ index' = index + 1
  /\ UNCHANGED <<sorted_points, nb, first_index_to_remove, pc, result, calls>>
  /\ UNCHANGED params

\* return first_point_to_remove
Return ==
  /\ pc = "Rewriting"
  /\ index = Len(sorted_points)
  /\ pc' = "Done"
  /\ result' = first_point_to_remove
  /\ UNCHANGED <<points, sorted_points, nb, first_point_to_remove, dst,
                 first_index_to_remove, index, calls>>
  /\ UNCHANGED params

Next == ScorePoint \/ BeginRewrite \/ RewriteStep \/ Return

Spec == Init /\ [][Next]_vars

\* ------------------------------------------------------------ properties
Range(s) == {s[i] : i \in DOMAIN s}
SeqToBag(s) == [e \in Range(s) |-> Cardinality({i \in DOMAIN s : s[i] = e})]
PointsOf(s) == [i \in DOMAIN s |-> s[i].pt]

\* the score the scoring loop recorded for an element of the range
KeyOf(e) ==
  sorted_points[CHOOSE h \in 1..Len(sorted_points) : sorted_points[h][2] = e][1]

BelowDistance(key) ==
  key.num < (threshold_distance * threshold_distance) * key.den

Removed == Len(points) - result

\* floor(N * (100 - threshold_percent) / 100) over the integers
ExactCut == (Len(input) * (100 - threshold_percent)) \div 100

\* the value of first_point_to_remove the rewrite loop ends with
FirstPointToRemove(sorted, first_index, distance) ==
  LET kept == {i \in 0..(Len(sorted) - 1) :
                 KeepsPoint(i, first_index, sorted[i + 1][1], distance)}
  IN  IF kept = {} THEN 0
      ELSE (CHOOSE i \in kept : \A h \in kept : h <= i) + 1

RemovedWith(percent) ==
  Len(sorted_points)
    - FirstPointToRemove(sorted_points, FirstIndexTable[Len(sorted_points)][percent],
                         threshold_distance)

SummaryAgrees ==
  pc = "Done" =>
    result = FirstPointToRemove(sorted_points, first_index_to_remove, threshold_distance)

QuotientTable ==
  [total \in Sizes |-> [i \in 1..total |-> DoubleDiv(i, total)]]

\* C1: a finished run, completed or cancelled, leaves the range with the N
\* elements of the input (same multiset of elements, same multiset of 3D
\* points) and returns an offset in 0..N.
C1_SizeAndMultisetPreserved ==
  pc \in {"Done", "Cancelled"} =>
    /\ Len(points) = Len(input)
    /\ SeqToBag(points) = SeqToBag(input)
    /\ SeqToBag(PointsOf(points)) = SeqToBag(PointsOf(input))
    /\ result \in 0..Len(input)

C1_Witness ==
  /\ pc = "Done"
  /\ points # input
  /\ result < Len(points)
  /\ \E i, j \in DOMAIN points : i # j /\ points[i].pt = points[j].pt

\* C2: once a poll of the callback has returned false (at any poll, the one
\* after the last point included) the run has returned points.end() and the
\* range is the input, element for element; and the range is not written
\* while scoring is under way.
C2_CancelLeavesRangeUntouched ==
  /\ (\E j \in 1..Len(calls) : ~calls[j].ret) =>
       /\ pc = "Cancelled"
       /\ result = Len(input)
       /\ points = input
  /\ pc \in {"Scoring", "Cancelled"} => points = input

C2_Witness ==
  /\ pc = "Cancelled"
  /\ nb_points >= 2
  /\ Len(calls) = nb_points
  /\ ~calls[nb_points].ret

\* C3: after a completed run the number of elements at or after the returned
\* position is at most N * threshold_percent / 100; with threshold_percent = 0
\* the returned position is end().
C3_PercentIsMaximum ==
  pc = "Done" =>
    /\ Removed * 100 <= Len(points) * threshold_percent
    /\ threshold_percent = 0 => result = Len(points)

C3_Witness ==
  /\ pc = "Done"
  /\ threshold_percent \in 1..99
  /\ Removed > 0
  /\ Removed * 100 = Len(points) * threshold_percent

\* C4: after a completed run every element whose score is strictly below
\* threshold_distance squared lies before the returned position.
C4_BelowDistanceIsKept ==
  pc = "Done" =>
    \A i \in 1..Len(points) : BelowDistance(KeyOf(points[i])) => i <= result

C4_Witness ==
  /\ pc = "Done"
  /\ result < Len(points)
  /\ \E i \in 1..Len(points) :
       /\ BelowDistance(KeyOf(points[i]))
       /\ i - 1 > first_index_to_remove

\* C5: with threshold_percent = 100 the elements before the returned position
\* are exactly those whose score is below threshold_distance squared.
C5_OnlyDistanceAtHundredPercent ==
  (pc = "Done" /\ threshold_percent = 100) =>
    \A i \in 1..Len(points) : (i <= result) <=> BelowDistance(KeyOf(points[i]))

\* C6: with threshold_distance = 0 exactly floor(N * (100 - threshold_percent) / 100)
\* elements lie before the returned position.
C6_CutAfterBestPercent ==
  (pc = "Done" /\ threshold_distance = 0) => result = ExactCut

\* C7: for the same scores and threshold_distance, a larger threshold_percent
\* never gives fewer elements at or after the returned position, a smaller
\* one never more.
C7_MonotoneInPercent ==
  pc = "Done" =>
    \A percent \in Percents :
      /\ percent >= threshold_percent => RemovedWith(percent) >= Removed
      /\ percent <= threshold_percent => RemovedWith(percent) <= Removed

C7_Witness ==
  /\ pc = "Done"
  /\ \E percent \in Percents :
       percent > threshold_percent /\ RemovedWith(percent) > Removed

\* C8: after a completed run the whole range is in non-decreasing order of
\* score, and elements of equal score are in their input order.
C8_SortedAndStable ==
  pc = "Done" =>
    \A i, j \in 1..Len(points) :
      i < j =>
        /\ ~FTLess(KeyOf(points[j]), KeyOf(points[i]))
        /\ FTEqual(KeyOf(points[i]), KeyOf(points[j])) => points[i].tag < points[j].tag

C8_Witness ==
  /\ pc = "Done"
  /\ points # input
  /\ \E i, j \in 1..Len(points) :
       i < j /\ FTEqual(KeyOf(points[i]), KeyOf(points[j]))
  /\ \E i, j \in 1..Len(points) :
       i < j /\ FTLess(KeyOf(points[i]), KeyOf(points[j]))

\* C9: a present callback is polled once after each point is scored, in input
\* order, the i-th time with i / N: every argument is in (0, 1], the arguments
\* increase strictly and the N-th is 1; only the last poll can have returned
\* false, and then nothing more was scored; a run that is rewriting the range
\* has polled N times.  An absent callback is never polled.
C9_CallbackPolledOncePerPoint ==
  /\ ~callback => calls = <<>>
  /\ Len(calls) <= nb_points
  /\ \A i \in 1..Len(calls) :
       /\ calls[i].arg = QuotientTable[nb_points][i]
       /\ DoubleLess(DoubleZero, calls[i].arg)
       /\ ~DoubleLess(DoubleOne, calls[i].arg)
       /\ i < Len(calls) =>
            calls[i].ret /\ DoubleLess(calls[i].arg, calls[i + 1].arg)
  /\ callback =>
       /\ Len(sorted_points) = Len(calls)
       /\ Range(sorted_points) \subseteq
            {<<KeyOf(input[i]), input[i]>> : i \in 1..Len(calls)}
       /\ pc = "Scoring" => nb = Len(calls)
       /\ pc = "Cancelled" => nb = Len(calls) - 1 /\ ~calls[Len(calls)].ret
       /\ (pc \in {"Rewriting", "Done"} \/ points # input) =>
            /\ Len(calls) = nb_points
            /\ calls[nb_points].ret
            /\ calls[nb_points].arg = DoubleOne

C9_Witness ==
  /\ callback
  /\ pc = "Done"
  /\ Len(calls) >= 3
  /\ points # input

\* C10: after a completed run, with F = floor(N * (100 - threshold_percent) / 100),
\* every position i before the returned one has i <= F or a score below
\* threshold_distance squared, every position at or after it has neither, the
\* number removed is min(N - min(N, F + 1), number of scores not below
\* threshold_distance squared), and at least one element is kept.
C10_CleanPartitionAtFloor ==
  pc = "Done" =>
    LET N == Len(points)
        far == Cardinality({i \in 1..N : ~BelowDistance(KeyOf(points[i]))})
        byPercent == N - (IF ExactCut + 1 < N THEN ExactCut + 1 ELSE N)
    IN  /\ \A i \in 0..(N - 1) :
             (i < result) <=> (i <= ExactCut \/ BelowDistance(KeyOf(points[i + 1])))
        /\ Removed = (IF byPercent < far THEN byPercent ELSE far)
        /\ result >= 1

====
